---- MODULE Spec2Model ----
(***************************************************************************)
(* Model of src/src/App.tsx: the Base DeFi APR Finder single-page client.  *)
(*                                                                         *)
(* Representation                                                          *)
(*   - a JavaScript string is a tuple of one-character strings;            *)
(*   - a nullable value (number | null, boolean | null | undefined,        *)
(*     string | null) is a tuple of length 0 (null / undefined / NaN) or   *)
(*     of length 1 (the value);                                            *)
(*   - numbers are integers (the records of the model carry integer apy    *)
(*     and tvlUsd);                                                        *)
(*   - the derived value `pools` (useMemo) is a variable recomputed by     *)
(*     every step, as a render recomputes it; the `_score` field that the  *)
(*     map of line 61 adds is a function of the record and is not stored.  *)
(***************************************************************************)
EXTENDS Integers, Sequences, FiniteSets, TLC

VARIABLES raw, q, minTVL, stableOnly, sortBy, limit, loading, err,
          pools, pc, outcome, fetches

vars == <<raw, q, minTVL, stableOnly, sortBy, limit, loading, err,
          pools, pc, outcome, fetches>>

\* ------------------------------------------------------------------ bounds
\* longest raw list enumerated exhaustively over the record templates
MaxLen == 1
\* length of the long raw lists (more records than the smallest limit)
LongLen == 11
\* cap on the number of fetches counted in one session
MaxFetches == 2

\* ------------------------------------------------------- nullable values
Null == <<>>

Some(v) == <<v>>

\* v ?? d
Coalesce(o, d) == IF o = Null THEN d ELSE o[1]

\* ---------------------------------------------------------------- strings
UpperChars == <<"A","B","C","D","E","F","G","H","I","J","K","L","M",
                "N","O","P","Q","R","S","T","U","V","W","X","Y","Z">>

LowerChars == <<"a","b","c","d","e","f","g","h","i","j","k","l","m",
                "n","o","p","q","r","s","t","u","v","w","x","y","z">>

DigitChars == <<"0","1","2","3","4","5","6","7","8","9">>

toUpperCaseChar(c) ==
  IF \E i \in 1..26 : LowerChars[i] = c
    THEN UpperChars[CHOOSE i \in 1..26 : LowerChars[i] = c]
    ELSE c

toLowerCaseChar(c) ==
  IF \E i \in 1..26 : UpperChars[i] = c
    THEN LowerChars[CHOOSE i \in 1..26 : UpperChars[i] = c]
    ELSE c

toUpperCase(s) == [i \in 1..Len(s) |-> toUpperCaseChar(s[i])]

toLowerCase(s) == [i \in 1..Len(s) |-> toLowerCaseChar(s[i])]

\* String.prototype.includes
includes(hay, needle) ==
  \E k \in 0..Len(hay) :
     /\ k + Len(needle) <= Len(hay)
     /\ SubSeq(hay, k + 1, k + Len(needle)) = needle

\* Number(text) for the texts a form control delivers: blank is 0, an
\* optionally signed run of digits is its value, anything else is NaN (Null)
RECURSIVE digitsValue(_)
digitsValue(s) ==
  IF s = <<>> THEN 0
  ELSE 10 * digitsValue(SubSeq(s, 1, Len(s) - 1))
       + (CHOOSE d \in 0..9 : DigitChars[d + 1] = s[Len(s)])

isDigits(s) ==
  /\ Len(s) > 0
  /\ \A i \in 1..Len(s) : \E d \in 1..10 : DigitChars[d] = s[i]

Number(s) ==
  IF \A i \in 1..Len(s) : s[i] = " " THEN Some(0)
  ELSE IF isDigits(s) THEN Some(digitsValue(s))
  ELSE IF s[1] = "-" /\ isDigits(Tail(s)) THEN Some(0 - digitsValue(Tail(s)))
  ELSE Null

\* x || d  for a number x: NaN and 0 are falsy
OrElse(x, d) == IF x = Null \/ x = Some(0) THEN d ELSE x[1]

Max(a, b) == IF a >= b THEN a ELSE b

Min(a, b) == IF a <= b THEN a ELSE b

\* ------------------------------------------------------- program constants
TargetChain == <<"B","a","s","e">>

StableTokens ==
  << <<"U","S","D","C">>, <<"U","S","D","T">>, <<"D","A","I">>,
     <<"U","S","D","B">>, <<"F","D","U","S","D">>, <<"M","U","S","D">>,
     <<"U","S","D","E">>, <<"P","Y","U","S","D">> >>

LimitOptions == <<10, 20, 30, 50, 100>>

SortOptions == <<"score", "apy", "tvl">>

InitMinTVL == 50000

InitLimit == 30

ApyNullSentinel == 0 - 1

\* messages are opaque to the program: plain strings
LoadErrorText == "Load error"

\* ------------------------------------------------------------ pure helpers
looksStable(p) ==
  LET sym == toUpperCase(p.symbol)
  IN  \E k \in 1..Len(StableTokens) : includes(sym, StableTokens[k])

RECURSIVE gcd(_, _)
gcd(a, b) == IF b = 0 THEN a ELSE gcd(b, a % b)

RECURSIVE pow(_, _)
pow(x, e) == IF e = 0 THEN 1 ELSE x * pow(x, e - 1)

Abs(x) == IF x < 0 THEN 0 - x ELSE x

Sign(x) == IF x < 0 THEN 0 - 1 ELSE IF x > 0 THEN 1 ELSE 0

\* sign of score(p1) - score(p2), score(p) = (apy ?? 0) * log10(1 + (tvlUsd ?? 0)).
\* log10 is increasing, so with A = apy ?? 0 and X = 1 + (tvlUsd ?? 0) >= 1
\* the sign of A*log10(X) is Sign(A) when X > 1 and 0 when X = 1, and for two
\* scores of the same sign A1*log10(X1) ? A2*log10(X2) is X1^|A1| ? X2^|A2|
\* (compared after dividing both exponents by their gcd).  Floating-point
\* rounding is monotone: it can merge two nearby scores but not reverse them,
\* and the scores of the record templates below are equal or far apart.
scoreSign(p) ==
  IF 1 + Coalesce(p.tvlUsd, 0) > 1 THEN Sign(Coalesce(p.apy, 0)) ELSE 0

scoreDiffSign(p1, p2) ==
  LET s1 == scoreSign(p1)
      s2 == scoreSign(p2)
      a1 == Abs(Coalesce(p1.apy, 0))
      a2 == Abs(Coalesce(p2.apy, 0))
      g  == gcd(a1, a2)
      m1 == pow(1 + Coalesce(p1.tvlUsd, 0), a1 \div g)
      m2 == pow(1 + Coalesce(p2.tvlUsd, 0), a2 \div g)
  IN  IF s1 # s2 THEN Sign(s1 - s2)
      ELSE IF s1 = 0 THEN 0
      ELSE IF s1 > 0 THEN Sign(m1 - m2)
      ELSE Sign(m2 - m1)

\* ------------------------------------------------------------ the pipeline
\* line 52: raw.filter((p) => p.chain === "Base")
basePools(rw) ==
  LET keep(p) == p.chain = TargetChain
  IN  SelectSeq(rw, keep)

\* a strict floor, > in place of >=
tvlFloor_strict(p, m) == Coalesce(p.tvlUsd, 0) > m

\* line 56: (p.tvlUsd ?? 0) >= minTVL
tvlFloor(p, m) == Coalesce(p.tvlUsd, 0) >= m

\* || in place of ??: an explicit false falls through to the heuristic
stablePass_or(p, so) ==
  IF so THEN p.stablecoin = Some(TRUE) \/ looksStable(p) ELSE TRUE

\* line 57: stableOnly ? (p.stablecoin ?? looksStable(p)) : true
stablePass(p, so) ==
  IF so THEN Coalesce(p.stablecoin, looksStable(p)) ELSE TRUE

\* the query compared without lower-casing it
textPass_caseSensitive(p, qq) ==
  IF qq # <<>>
    THEN includes(toLowerCase(p.project \o <<" ">> \o p.symbol), qq)
    ELSE TRUE

\* lines 58-60: q ? (project + " " + symbol).toLowerCase().includes(q.toLowerCase()) : true
textPass(p, qq) ==
  IF qq # <<>>
    THEN includes(toLowerCase(p.project \o <<" ">> \o p.symbol), toLowerCase(qq))
    ELSE TRUE

\* lines 55-61: the array `arr` before the sort
filterStage(rw, qq, m, so) ==
  LET keep(p) == tvlFloor(p, m) /\ stablePass(p, so) /\ textPass(p, qq)
  IN  SelectSeq(basePools(rw), keep)

\* lines 63-67: the comparator; negative puts a first, positive puts b first
comparator(a, b, sb) ==
  IF sb = "apy"
    THEN Coalesce(b.apy, ApyNullSentinel) - Coalesce(a.apy, ApyNullSentinel)
  ELSE IF sb = "tvl"
    THEN Coalesce(b.tvlUsd, 0) - Coalesce(a.tvlUsd, 0)
  ELSE scoreDiffSign(b, a)

\* an unstable insertion: x goes before the elements it ties with
RECURSIVE insertSorted_unstable(_, _, _)
insertSorted_unstable(s, x, sb) ==
  IF s = <<>> THEN <<x>>
  ELSE IF comparator(x, Head(s), sb) <= 0 THEN <<x>> \o s
  ELSE <<Head(s)>> \o insertSorted_unstable(Tail(s), x, sb)

\* Array.prototype.sort is stable (ECMAScript 2019): x goes after every
\* element it does not strictly precede
RECURSIVE insertSorted(_, _, _)
insertSorted(s, x, sb) ==
  IF s = <<>> THEN <<x>>
  ELSE IF comparator(x, Head(s), sb) < 0 THEN <<x>> \o s
  ELSE <<Head(s)>> \o insertSorted(Tail(s), x, sb)

RECURSIVE sortStage(_, _)
sortStage(arr, sb) ==
  IF arr = <<>> THEN <<>>
  ELSE insertSorted(sortStage(SubSeq(arr, 1, Len(arr) - 1), sb), arr[Len(arr)], sb)

\* line 69: arr.slice(0, limit)
slice(arr, lim) == SubSeq(arr, 1, Min(Max(lim, 0), Len(arr)))

\* lines 52-70: the memoised value `pools`, recomputed by the render that
\* follows any change of raw, q, minTVL, stableOnly, sortBy or limit
computePools(rw, qq, m, so, sb, lim) ==
  slice(sortStage(filterStage(rw, qq, m, so), sb), lim)

\* ------------------------------------------------------------------ inputs
Str_Aa == <<"A","a">>

Str_Uni == <<"U","n","i">>

Str_USDC == <<"U","S","D","C">>

Str_ETH == <<"E","T","H">>

Rec(ch, pr, sy, tvl, apy, st) ==
  [pool |-> 0, project |-> pr, chain |-> ch, symbol |-> sy,
   tvlUsd |-> tvl, apy |-> apy, stablecoin |-> st]

\* record templates (the pool id is given by the position in the list)
Templates ==
  << Rec(TargetChain, Str_Aa, Str_USDC, Some(100000), Some(5), Null),
     Rec(TargetChain, Str_Uni, Str_ETH, Some(100000), Some(5), Some(TRUE)),
     Rec(TargetChain, Str_Aa, Str_USDC, Some(50000), Null, Some(FALSE)),
     Rec(TargetChain, Str_Uni, Str_ETH, Some(2000000), Some(0 - 5), Null),
     Rec(<<"b","a","s","e">>, Str_Aa, Str_USDC, Some(100000), Some(5), Null),
     Rec(TargetChain, Str_Uni, <<"b","m","u","s","d">>, Null, Some(5), Null) >>

NTemplates == Len(Templates)

\* the list whose i-th record is template ix[((i-1) mod Len(ix)) + 1], id i
ListOf(ix, len) ==
  [i \in 1..len |-> [Templates[ix[((i - 1) % Len(ix)) + 1]] EXCEPT !.pool = i]]

ShortIndexes == UNION {[1..k -> 1..NTemplates] : k \in 1..MaxLen}

\* a long list alternates two templates a, b, a, b, ... (or repeats one)
LongIndexes == {ix \in [1..2 -> 1..NTemplates] : ix[1] <= ix[2]}

\* response lists: every list of at most MaxLen records, and the lists of
\* LongLen records that alternate two templates
ResponseLists ==
  {<<>>} \cup {ListOf(ix, Len(ix)) : ix \in ShortIndexes}
         \cup {ListOf(ix, LongLen) : ix \in LongIndexes}

\* parsed bodies j: null, an object without data, an object with a data list
JsonBodies == {Null, Some([data |-> Null])}
                \cup {Some([data |-> Some(l)]) : l \in ResponseLists}

\* rejection values e: without a message, with a message, with an empty one
Rejections == {[message |-> Null], [message |-> Some("Failed to fetch")],
               [message |-> Some("")]}

QueryInputs == {<<>>, <<"A"," ","U">>, <<"u","s","d">>}

MinTvlInputs == {<<>>, <<"a","b","c">>, <<"-","5">>, <<"1","0","0","0","0","0">>}

LimitInputs == {<<"1","0">>, <<"2","0">>, <<"3","0">>, <<"5","0">>, <<"1","0","0">>}

\* ----------------------------------------------------------- state machine
\* lines 29-36: the useState initial values; pools is the memo of the first
\* render; the mount effect has not run yet
Init ==
  /\ raw = <<>>
  /\ q = <<>>
  /\ minTVL = InitMinTVL
  /\ stableOnly = FALSE
  /\ sortBy = "score"
  /\ limit = InitLimit
  /\ loading = TRUE
  /\ err = Null
  /\ pools = computePools(<<>>, <<>>, InitMinTVL, FALSE, "score", InitLimit)
  /\ pc = "start"
  /\ outcome = "pending"
  /\ fetches = 0

\* a render that narrows the previous output while the records are unchanged
Render_fromPreviousOutput ==
  pools' = IF raw' = raw /\ pools # <<>>
             THEN computePools(pools, q', minTVL', stableOnly', sortBy', limit')
             ELSE computePools(raw', q', minTVL', stableOnly', sortBy', limit')

\* the render after a state change: useMemo recomputes pools from the new state
Render ==
  pools' = computePools(raw', q', minTVL', stableOnly', sortBy', limit')

\* the effect without its dependency list: it runs again after later renders
effectDue_everyRender == pc \in {"start", "done"}

\* lines 38-50, dependency list []: the effect runs after the first render only
effectDue == pc = "start"

\* lines 38-41: the effect starts the async function, which issues the fetch
RunEffect ==
  /\ effectDue
  /\ fetches < MaxFetches
  /\ fetches' = fetches + 1
  /\ pc' = "awaitFetch"
  /\ outcome' = "pending"
  /\ UNCHANGED <<raw, q, minTVL, stableOnly, sortBy, limit, loading, err, pools>>

\* line 41: the fetch promise resolves with a response
FetchResolve ==
  /\ pc = "awaitFetch"
  /\ pc' = "awaitJson"
  /\ UNCHANGED <<raw, q, minTVL, stableOnly, sortBy, limit, loading, err,
                 pools, outcome, fetches>>

\* a catch that only logs: no error is stored
catchError_logOnly(e) == Null

\* lines 44-45: setErr(e?.message ?? "Load error")
catchError(e) == Some(Coalesce(e.message, LoadErrorText))

\* lines 41, 44-45: the fetch promise rejects with e
FetchReject(e) ==
  /\ pc = "awaitFetch"
  /\ err' = catchError(e)
  /\ pc' = "finally"
  /\ outcome' = "failed"
  /\ UNCHANGED <<raw, q, minTVL, stableOnly, sortBy, limit, loading, fetches>>
  /\ Render

\* line 43: j?.data ?? []
dataOf(j) == IF j = Null THEN <<>> ELSE Coalesce(j[1].data, <<>>)

\* lines 42-43: r.json() resolves with j; setRaw(j?.data ?? [])
JsonResolve(j) ==
  /\ pc = "awaitJson"
  /\ raw' = dataOf(j)
  /\ pc' = "finally"
  /\ outcome' = "ok"
  /\ UNCHANGED <<q, minTVL, stableOnly, sortBy, limit, loading, err, fetches>>
  /\ Render

\* lines 42, 44-45: r.json() rejects with e (the body does not parse)
JsonReject(e) ==
  /\ pc = "awaitJson"
  /\ err' = catchError(e)
  /\ pc' = "finally"
  /\ outcome' = "failed"
  /\ UNCHANGED <<raw, q, minTVL, stableOnly, sortBy, limit, loading, fetches>>
  /\ Render

\* lines 46-48: finally { setLoading(false) }
Finally ==
  /\ pc = "finally"
  /\ loading' = FALSE
  /\ pc' = "done"
  /\ UNCHANGED <<raw, q, minTVL, stableOnly, sortBy, limit, err, outcome, fetches>>
  /\ Render

\* line 92: onChange={(e) => setQ(e.target.value)}
SetQ(text) ==
  /\ UNCHANGED <<raw, minTVL, stableOnly, sortBy, limit, loading, err,
                 pc, outcome, fetches>>
  /\ q' = text
  /\ Render

\* line 101: onChange={(e) => setSortBy(e.target.value as typeof sortBy)}
SetSortBy(v) ==
  /\ UNCHANGED <<raw, q, minTVL, stableOnly, limit, loading, err,
                 pc, outcome, fetches>>
  /\ sortBy' = v
  /\ Render

\* the threshold without the clamp
minTvlOf_noClamp(text) == OrElse(Number(text), 0)

\* line 116: Math.max(0, Number(e.target.value) || 0)
minTvlOf(text) == Max(0, OrElse(Number(text), 0))

\* line 116: onChange={(e) => setMinTVL(...)}
SetMinTVL(text) ==
  /\ UNCHANGED <<raw, q, stableOnly, sortBy, limit, loading, err,
                 pc, outcome, fetches>>
  /\ minTVL' = minTvlOf(text)
  /\ Render

\* line 125: onChange={(e) => setLimit(Number(e.target.value) || limit)}
SetLimit(text) ==
  /\ UNCHANGED <<raw, q, minTVL, stableOnly, sortBy, loading, err,
                 pc, outcome, fetches>>
  /\ limit' = OrElse(Number(text), limit)
  /\ Render

\* line 139: onClick={() => setStableOnly((v) => !v)}
ToggleStableOnly ==
  /\ UNCHANGED <<raw, q, minTVL, sortBy, limit, loading, err,
                 pc, outcome, fetches>>
  /\ stableOnly' = ~stableOnly
  /\ Render

\* line 154: onClick={() => location.reload()}: the page, and with it the
\* session, starts again from its initial state
Reload ==
  /\ raw' = <<>>
  /\ q' = <<>>
  /\ minTVL' = InitMinTVL
  /\ stableOnly' = FALSE
  /\ sortBy' = "score"
  /\ limit' = InitLimit
  /\ loading' = TRUE
  /\ err' = Null
  /\ pc' = "start"
  /\ outcome' = "pending"
  /\ fetches' = 0
  /\ Render

\* lines 163-177: the three banners
ShowError == err # Null /\ err[1] # ""

ShowLoading == loading

\* the empty-state banner without the loading test
ShowEmpty_ignoresLoading == Len(pools) = 0

ShowEmpty == ~loading /\ Len(pools) = 0

Next ==
  \/ RunEffect
  \/ FetchResolve
  \/ \E e \in Rejections : FetchReject(e)
  \/ \E j \in JsonBodies : JsonResolve(j)
  \/ \E e \in Rejections : JsonReject(e)
  \/ Finally
  \/ \E text \in QueryInputs : SetQ(text)
  \/ \E k \in 1..Len(SortOptions) : SetSortBy(SortOptions[k])
  \/ \E text \in MinTvlInputs : SetMinTVL(text)
  \/ \E text \in LimitInputs : SetLimit(text)
  \/ ToggleStableOnly
  \/ Reload

Spec == Init /\ [][Next]_vars

\* ------------------------------------------------------------- properties
\* The statements below are written against the state, with their own
\* wording of each predicate.  A record is identified by its pool id, which
\* is its position in the raw list.
Ids == 1..Len(raw)

InPools(i) == \E k \in 1..Len(pools) : pools[k].pool = i

IsBase(p) == p.chain = <<"B","a","s","e">>

TvlOrZero(p) == IF p.tvlUsd = Null THEN 0 ELSE p.tvlUsd[1]

HeuristicStable(sym) ==
  \E t \in { <<"U","S","D","C">>, <<"U","S","D","T">>, <<"D","A","I">>,
             <<"U","S","D","B">>, <<"F","D","U","S","D">>, <<"M","U","S","D">>,
             <<"U","S","D","E">>, <<"P","Y","U","S","D">> } :
     includes(toUpperCase(sym), t)

StablePredicate(p) ==
  IF p.stablecoin # Null THEN p.stablecoin[1] ELSE HeuristicStable(p.symbol)

TextMatches(p) ==
  q = <<>> \/ includes(toLowerCase(p.project \o <<" ">> \o p.symbol), toLowerCase(q))

TextMatchesUnspaced(p) ==
  q = <<>> \/ includes(toLowerCase(p.project \o p.symbol), toLowerCase(q))

Qualifies(p) ==
  /\ IsBase(p)
  /\ TvlOrZero(p) >= minTVL
  /\ stableOnly => StablePredicate(p)
  /\ TextMatches(p)

QualifyingIds == {i \in Ids : Qualifies(raw[i])}

FilteredNow == filterStage(raw, q, minTVL, stableOnly)

FullListNow == sortStage(FilteredNow, sortBy)

\* C1: every output pool has chain exactly "Base" and tvlUsd (null as 0) >=
\* minTvl, and every raw record that meets the chain, TVL, stable and text
\* conditions is in the filtered set before truncation (hence in the output
\* whenever the limit does not cut it).
C1_ChainAndTvlFloor ==
  LET F == FilteredNow
      Q == QualifyingIds
  IN  /\ \A k \in 1..Len(pools) :
            IsBase(pools[k]) /\ TvlOrZero(pools[k]) >= minTVL
      /\ \A i \in Q : \E k \in 1..Len(F) : F[k] = raw[i]
      /\ Cardinality(Q) <= limit => \A i \in Q : InPools(i)

\* C1 witness: a record of another chain spelling ("base") is left out while
\* a Base record whose tvlUsd equals minTvl is shown.
C1_Witness ==
  /\ pc = "done"
  /\ \E i \in Ids : ~IsBase(raw[i]) /\ TvlOrZero(raw[i]) >= minTVL /\ ~InPools(i)
  /\ \E k \in 1..Len(pools) : TvlOrZero(pools[k]) = minTVL /\ minTVL > 0

\* C2: with stableOnly every output pool satisfies the stable predicate (the
\* explicit flag when present, the symbol heuristic otherwise): flag false
\* with symbol USDC is excluded, flag true with symbol ETH is kept, symbol
\* ETH without a flag is excluded; without stableOnly the stable filter
\* removes nothing.
C2_StableOnly ==
  /\ stableOnly =>
       /\ \A k \in 1..Len(pools) : StablePredicate(pools[k])
       /\ \A i \in Ids :
            /\ (raw[i].stablecoin = Some(FALSE) /\ raw[i].symbol = Str_USDC)
                  => ~InPools(i)
            /\ (raw[i].stablecoin = Null /\ raw[i].symbol = Str_ETH)
                  => ~InPools(i)
            /\ ( /\ raw[i].stablecoin = Some(TRUE)
                 /\ raw[i].symbol = Str_ETH
                 /\ IsBase(raw[i]) /\ TvlOrZero(raw[i]) >= minTVL
                 /\ TextMatches(raw[i])
                 /\ Len(FilteredNow) <= limit )
                  => InPools(i)
  /\ ~stableOnly =>
       Len(pools) =
         Min(limit, Cardinality({i \in Ids : /\ IsBase(raw[i])
                                             /\ TvlOrZero(raw[i]) >= minTVL
                                             /\ TextMatches(raw[i])}))

\* C2 witness: stableOnly is on, a pool flagged stable with symbol ETH is
\* shown and a record flagged not stable with symbol USDC, above the TVL
\* floor, is left out.
C2_Witness ==
  /\ stableOnly
  /\ \E k \in 1..Len(pools) :
        pools[k].stablecoin = Some(TRUE) /\ pools[k].symbol = Str_ETH
  /\ \E i \in Ids :
        /\ raw[i].stablecoin = Some(FALSE) /\ raw[i].symbol = Str_USDC
        /\ IsBase(raw[i]) /\ TvlOrZero(raw[i]) >= minTVL /\ TextMatches(raw[i])
        /\ ~InPools(i)

\* C3: sorted by apy, every adjacent output pair (a before b) has
\* apy(a) >= apy(b) with null as negative infinity: a pool with null apy never
\* precedes a pool with a real apy, a negative one included.
C3_ApyNullIsLowest ==
  sortBy = "apy" =>
    \A k \in 1..(Len(pools) - 1) :
       /\ pools[k].apy = Null => pools[k + 1].apy = Null
       /\ (pools[k].apy # Null /\ pools[k + 1].apy # Null)
             => pools[k].apy[1] >= pools[k + 1].apy[1]

\* C4: the output is exactly the first `limit` elements of the full
\* filtered-and-sorted list of the current records and configuration (so its
\* length is min(limit, size of the filtered set)), whatever was shown before.
C4_PureSlice ==
  LET Full == FullListNow
  IN  /\ Len(pools) = Min(limit, Len(Full))
      /\ Len(pools) = Min(limit, Cardinality(QualifyingIds))
      /\ \A k \in 1..Len(pools) : pools[k] = Full[k]

\* C4 witness: the session has settled, the limit (changed from its initial
\* value) cuts the list: more records qualify than are shown.
C4_Witness ==
  /\ pc = "done"
  /\ limit # InitLimit
  /\ Len(pools) = limit
  /\ Cardinality(QualifyingIds) > limit

SortValuesEqual(a, b) ==
  IF sortBy = "apy" THEN a.apy = b.apy
  ELSE IF sortBy = "tvl" THEN TvlOrZero(a) = TvlOrZero(b)
  ELSE scoreDiffSign(a, b) = 0

\* C5: for each sort key, two output pools with equal sort values appear in
\* the order they have in the raw list.
C5_StableOrder ==
  \A k \in 1..Len(pools) : \A l \in (k + 1)..Len(pools) :
     SortValuesEqual(pools[k], pools[l]) => pools[k].pool < pools[l].pool

\* C5 witness: under the default sort the sort has moved a record ahead of
\* records that precede it in the raw list, and two records of equal score
\* are shown.
C5_Witness ==
  /\ sortBy = "score"
  /\ \E k \in 1..Len(pools) : \E l \in (k + 1)..Len(pools) :
        SortValuesEqual(pools[k], pools[l])
  /\ \E k \in 1..Len(pools) : \E l \in (k + 1)..Len(pools) :
        pools[k].pool > pools[l].pool

\* The state after a failed fetch (rejected, or a body that does not parse): the
\* message is stored, the records stay empty, the output is empty, loading is
\* false once the request has finished, exactly one fetch was issued, and
\* nothing but a page reload changes any of this: the error state persists
\* through every configuration change.
C6_FailureState ==
  outcome = "failed" =>
     /\ err # Null
     /\ raw = <<>>
     /\ pools = <<>>
     /\ fetches = 1
     /\ pc \in {"finally", "done"}
     /\ pc = "done" => ~loading

\* C6: the failure state above holds in every state after a failed fetch, and
\* every step but a page reload keeps the failure, its message, the empty
\* records and the single fetch (and never turns loading back on).
C6_FailureIsTerminal ==
  /\ []C6_FailureState
  /\ [][Reload \/ (outcome = "failed" =>
                     /\ outcome' = "failed"
                     /\ err' = err
                     /\ raw' = raw
                     /\ fetches' = fetches
                     /\ (~loading => ~loading'))]_vars

\* C6 witness: the fetch failed, the request has finished and the user has
\* since changed the configuration.
C6_Witness ==
  /\ outcome = "failed"
  /\ pc = "done"
  /\ err = Some("Failed to fetch")
  /\ stableOnly /\ q # <<>> /\ limit # InitLimit /\ minTVL # InitMinTVL

\* C7 as stated: a successful fetch of an empty list (or of a body without
\* data) ends with loading false, an empty output, the empty-state shown and
\* no error; the empty-state is never shown while loading; and no outcome
\* raises both the empty-state and the error message.
C7_EmptyAndErrorExclusive ==
  /\ (outcome = "ok" /\ pc = "done" /\ raw = <<>>) =>
        ~loading /\ pools = <<>> /\ ShowEmpty /\ err = Null
  /\ loading => ~ShowEmpty
  /\ ~(ShowError /\ ShowEmpty)

\* C7 amended: as above, except that the error message is raised by a failed
\* fetch only, and a failed fetch raises the empty-state as well once loading
\* has ended (its output is empty).
C7_EmptyState ==
  /\ (outcome = "ok" /\ pc = "done" /\ raw = <<>>) =>
        ~loading /\ pools = <<>> /\ ShowEmpty /\ err = Null /\ ~ShowError
  /\ loading => ~ShowEmpty
  /\ (pc # "done") => ~ShowEmpty
  /\ ShowError => outcome = "failed"
  /\ (outcome = "failed" /\ pc = "done") => ShowEmpty

\* C7 witness: the fetch succeeded with no records and the request finished.
C7_Witness ==
  /\ outcome = "ok" /\ pc = "done" /\ raw = <<>>
  /\ ShowEmpty /\ ~ShowError /\ ~ShowLoading

PcRank(p) ==
  CASE p = "start" -> 0
    [] p = "awaitFetch" -> 1
    [] p = "awaitJson" -> 2
    [] p = "finally" -> 3
    [] p = "done" -> 4

\* One fetch per session, no records before it resolves, and the output
\* carries each record as it is in the raw list (a null apy or tvlUsd is
\* still null).
C8_Frame ==
  /\ fetches <= 1
  /\ pc # "start" => fetches = 1
  /\ pc \in {"start", "awaitFetch", "awaitJson"} => raw = <<>>
  /\ \A k \in 1..Len(pools) :
        pools[k].pool \in Ids /\ pools[k] = raw[pools[k].pool]

\* C8: the frame above holds in every state, and every step but a page reload
\* moves the request forward only, writes the records only as the fetch
\* resolves, and changes none of records, error, loading once it has finished.
C8_FetchedOnceAndImmutable ==
  /\ []C8_Frame
  /\ [][Reload \/ ( /\ PcRank(pc') >= PcRank(pc)
                    /\ fetches' >= fetches
                    /\ raw' # raw => (pc = "awaitJson" /\ pc' = "finally")
                    /\ pc = "done" => /\ raw' = raw
                                      /\ err' = err
                                      /\ loading' = loading
                                      /\ fetches' = fetches
                                      /\ pc' = "done" )]_vars

\* C8 witness: the request has finished with records, the configuration was
\* changed afterwards, and a record with null apy is shown with its null.
C8_Witness ==
  /\ pc = "done" /\ raw # <<>>
  /\ q # <<>> /\ sortBy # "score" /\ minTVL # InitMinTVL
  /\ \E k \in 1..Len(pools) : pools[k].apy = Null

OtherFiltersPass(p) ==
  /\ IsBase(p)
  /\ TvlOrZero(p) >= minTVL
  /\ stableOnly => StablePredicate(p)

UncutIds == {i \in Ids : OtherFiltersPass(raw[i])}

\* C9 as stated: a record passes the text filter iff the lower-cased
\* concatenation of project and symbol contains the lower-cased query (every
\* record passes an empty query).
C9_TextFilterUnspaced ==
  LET U == UncutIds
  IN  Cardinality(U) <= limit =>
        \A i \in U : InPools(i) <=> TextMatchesUnspaced(raw[i])

\* C9 amended: the text searched is project, one space, symbol.
C9_TextFilter ==
  LET U == UncutIds
  IN  Cardinality(U) <= limit =>
        \A i \in U : InPools(i) <=> TextMatches(raw[i])

\* C9 witness: a mixed-case query that spans the space between project and
\* symbol keeps one record and drops another.
C9_Witness ==
  /\ q = <<"A"," ","U">>
  /\ Cardinality(UncutIds) <= limit
  /\ \E i \in UncutIds : InPools(i)
  /\ \E i \in UncutIds : ~InPools(i)

ConfigInRange ==
  /\ minTVL \in Nat
  /\ \E k \in 1..Len(LimitOptions) : limit = LimitOptions[k]
  /\ limit \in {10, 20, 30, 50, 100}
  /\ sortBy \in {"score", "apy", "tvl"}
  /\ stableOnly \in BOOLEAN

\* C10: the session starts with minTvl 50000, limit 30, sort key score,
\* stableOnly off and an empty query; in every state minTvl is a number >= 0,
\* limit is one of 10, 20, 30, 50, 100 and the sort key one of score, apy,
\* tvl; and a minimum-TVL text that is not a number is stored as 0.
C10_ConfigRanges ==
  /\ ( /\ minTVL = 50000 /\ limit = 30 /\ sortBy = "score"
       /\ stableOnly = FALSE /\ q = <<>> )
  /\ []ConfigInRange
  /\ [][\A text \in MinTvlInputs :
          SetMinTVL(text) => /\ minTVL' >= 0
                             /\ Number(text) = Null => minTVL' = 0
                             /\ (Number(text) # Null /\ Number(text)[1] < 0)
                                   => minTVL' = 0]_vars

\* C10 witness: every control has been moved off its initial value, the
\* minimum TVL to 0.
C10_Witness ==
  /\ minTVL = 0 /\ limit = 100 /\ sortBy = "tvl" /\ stableOnly /\ q # <<>>

====
